---- MODULE Spec2Model ----
(***************************************************************************)
(* State-machine model of the Streamlit teaching demos of the repository:  *)
(*   Queue/queue.py            M/M/c queue, one CTMC event per script run  *)
(*   Repair System/sr_app.py   machine-repair birth-death process          *)
(*   Traffic Lights System/sfc_app.py   two-phase crossroad with cars      *)
(*                                                                         *)
(* A Streamlit page is a script that is re-executed from top to bottom on  *)
(* every widget interaction and on every st.rerun().  One action of the    *)
(* model is one such script run: the sidebar widgets are read, the button  *)
(* handlers run, simulation_step() (on the traffic page: the tick, or the  *)
(* car update) is called when the driver guard holds, and the animation    *)
(* tail arms the next rerun.  st.session_state is the only state that      *)
(* survives from one run to the next.                                      *)
(*                                                                         *)
(* Reals are modelled on an integer grid: time, holding times and the      *)
(* time-weighted accumulators are whole numbers of one time quantum, and   *)
(* rates are whole numbers of one rate quantum.  random.expovariate and    *)
(* random.random are nondeterministic draws.                               *)
(***************************************************************************)
EXTENDS Integers, Sequences, FiniteSets, TLC

VARIABLES
    app,            \* which page this session runs: "queue", "repair" or
                    \* "traffic"
    sidebar,        \* the sidebar widget values read at the top of the script
    session_state,  \* st.session_state
    script_run,     \* the inputs of the last script run: the button pressed,
                    \* whether simulation_step was called, and the values
                    \* random.expovariate (dt) and the random.random test
                    \* (event) returned in it, each <<>> when not drawn; on
                    \* the traffic page: the button, whether the tick ran,
                    \* whether random.randint raised, the two can_move
                    \* flags and the draws of the tick
    display,        \* the result sections the last script run rendered; on
                    \* the traffic page: the four signals it rendered
    step_params     \* the sidebar values simulation_step has read since the
                    \* engine was last reset (a set: one value per setting)

vars == <<app, sidebar, session_state, script_run, display, step_params>>

----------------------------------------------------------------------------
(* Bounds of the model *)

\* largest holding time (in time quanta) random.expovariate is taken to return
MaxDt == 2
\* largest horizon (in time quanta) the T_MAX slider is taken to be set to
MaxT == 3
\* largest rate (in rate quanta) the lambda and mu sliders are taken to be set to
MaxRate == 1
\* simulation steps are cut off once a history holds this many samples
MaxHist == 5
\* the sidebar is left alone once this many settings are in play between two
\* resets (those the steps have read, and the one the widgets hold)
MaxSettings == 2

----------------------------------------------------------------------------
(* Helpers *)

Min(a, b) == IF a < b THEN a ELSE b
Max(a, b) == IF a > b THEN a ELSE b

\* The possible results of random.expovariate(total_rate): a holding time
\* dt >= 0 (0.0 is returned when random() returns 0.0).
Expovariate(total_rate) == 0 .. MaxDt

\* The possible truth values of `random.random() < rate / total_rate`, with
\* random.random() in [0, 1): TRUE needs a positive share, FALSE a share
\* below 1.
RandomLess(rate, total_rate) ==
    {u \in BOOLEAN : (u => rate > 0) /\ (~u => rate < total_rate)}

lambda_rate == sidebar.lambda_rate
mu_rate == sidebar.mu_rate
T_MAX == sidebar.T_MAX
c == sidebar.c
teams == sidebar.teams

\* the buttons of the sidebar; at most one is pressed in a script run
Buttons == {"none", "start_stop", "reset"}

\* Horizons the T_MAX slider can be set to
Horizons == 1 .. MaxT
\* Rates the lambda / mu sliders can be set to (their minimum is positive)
Rates == 1 .. MaxRate
\* c = st.sidebar.selectbox("Number of servers (c)", [1, 2, 3])
Servers == {1, 2, 3}
\* teams = st.sidebar.selectbox("Maintenance teams", [1, 2])
Teams == {1, 2}
\* N = 3  # number of machines
N == 3

----------------------------------------------------------------------------
(* Queue/queue.py *)

\* session state init, lines 29-50 (step_pending is first written by the
\* animation tail and never read by this page; FALSE stands for "not set")
QueueInitState ==
    [running |-> FALSE, paused |-> FALSE, time |-> 0, queue |-> 0, busy |-> 0,
     arrivals |-> 0, served |-> 0, queue_time |-> 0, busy_time |-> 0,
     queue_history |-> <<>>, time_history |-> <<>>, step_pending |-> FALSE]

\* Start / Stop button, lines 55-57
QueueStartStop(s) == [s EXCEPT !.running = ~s.running]

\* Reset button, lines 59-70
QueueReset(s) ==
    [s EXCEPT !.running = FALSE, !.paused = FALSE, !.time = 0, !.queue = 0,
              !.busy = 0, !.arrivals = 0, !.served = 0, !.queue_time = 0,
              !.busy_time = 0, !.queue_history = <<>>, !.time_history = <<>>]

QueueButtons(s, button) ==
    CASE button = "start_stop" -> QueueStartStop(s)
      [] button = "reset" -> QueueReset(s)
      [] OTHER -> s

\* mutant: every server is taken to be working, whatever the busy count
QueueServiceRate_AllServers(s) == c * mu_rate

\* Rates, lines 79-81
QueueArrivalRate == lambda_rate
QueueServiceRate(s) == Min(s.busy, c) * mu_rate
QueueTotalRate(s) == QueueArrivalRate + QueueServiceRate(s)

\* mutant: the next event time is not clamped to the horizon
QueueNextTime_Unclamped(s, dt) == s.time + dt

\* next_time = min(t + dt, T_MAX), line 87
QueueNextTime(s, dt) == Min(s.time + dt, T_MAX)

\* Update time-weighted averages and the clock, lines 89-92
QueueAccumulate(s, next_time) ==
    [s EXCEPT !.queue_time = @ + s.queue * (next_time - s.time),
              !.busy_time = @ + s.busy * (next_time - s.time),
              !.time = next_time]

\* mutant: the newest sample is put in front
QueueRecord_Prepends(s, q, next_time) ==
    [s EXCEPT !.queue_history = <<q>> \o @,
              !.time_history = <<next_time>> \o @]

\* Record for plotting, lines 94-96: q is the queue length read at line 75
QueueRecord(s, q, next_time) ==
    [s EXCEPT !.queue_history = Append(@, q),
              !.time_history = Append(@, next_time)]

\* mutant: an arrival takes a server while b <= c
QueueArrival_OffByOne(s, b) ==
    IF b <= c
    THEN [s EXCEPT !.arrivals = @ + 1, !.busy = @ + 1]
    ELSE [s EXCEPT !.arrivals = @ + 1, !.queue = @ + 1]

\* mutant: an arrival that has to queue is not counted
QueueArrival_QueuedNotCounted(s, b) ==
    IF b < c
    THEN [s EXCEPT !.arrivals = @ + 1, !.busy = @ + 1]
    ELSE [s EXCEPT !.queue = @ + 1]

\* ARRIVAL, lines 100-105: b is the busy count read at line 76
QueueArrival(s, b) ==
    IF b < c
    THEN [s EXCEPT !.arrivals = @ + 1, !.busy = @ + 1]
    ELSE [s EXCEPT !.arrivals = @ + 1, !.queue = @ + 1]

\* mutant: a completion frees its server even when a customer is waiting
QueueService_FreesServer(s, q, b) ==
    IF q > 0
    THEN [s EXCEPT !.served = @ + 1, !.queue = @ - 1, !.busy = Max(0, b - 1)]
    ELSE [s EXCEPT !.served = @ + 1, !.busy = Max(0, b - 1)]

\* SERVICE COMPLETION, lines 107-115
QueueService(s, q, b) ==
    IF q > 0
    THEN [s EXCEPT !.served = @ + 1, !.queue = @ - 1]
    ELSE [s EXCEPT !.served = @ + 1, !.busy = Max(0, b - 1)]

\* Determine event type, lines 98-115
QueueEvent(s, q, b, isArrival) ==
    IF isArrival THEN QueueArrival(s, b) ELSE QueueService(s, q, b)

\* The draws simulation_step makes in state s: none when it returns at line
\* 84, else a holding time (line 86) and the event test (line 99)
QueueDraws(s) ==
    IF QueueTotalRate(s) = 0
    THEN {<< <<>>, <<>> >>}
    ELSE {<< <<dt>>, <<u>> >> :
              dt \in Expovariate(QueueTotalRate(s)),
              u \in RandomLess(QueueArrivalRate, QueueTotalRate(s))}

\* mutant: the elapsed interval is weighted by the state the event enters
QueueSimulationStep_WeightsEntered(s, dt, isArrival) ==
    IF QueueTotalRate(s) = 0
    THEN s
    ELSE LET next_time == QueueNextTime(s, dt)
             s1 == QueueEvent(s, s.queue, s.busy, isArrival)
             s2 == QueueAccumulate(s1, next_time)
         IN  QueueRecord(s2, s.queue, next_time)

\* simulation_step(), lines 73-115, with the draws dt and isArrival
QueueSimulationStep(s, dt, isArrival) ==
    IF QueueTotalRate(s) = 0
    THEN s
    ELSE LET next_time == QueueNextTime(s, dt)
             s1 == QueueAccumulate(s, next_time)
             s2 == QueueRecord(s1, s.queue, next_time)
         IN  QueueEvent(s2, s.queue, s.busy, isArrival)

\* mutant: the driver does not test the clock against the horizon
QueueStepGuard_NoHorizon(s) == s.running /\ ~s.paused

\* driver guard, line 118
QueueStepGuard(s) == s.running /\ ~s.paused /\ s.time < T_MAX

\* Auto animation loop, lines 222-225
QueueTail(s) ==
    IF s.running /\ s.time < T_MAX
    THEN [s EXCEPT !.step_pending = TRUE]
    ELSE s

\* Theoretical M/M/1 and M/M/c sections, lines 174-200: the subheader of the
\* branch that runs, if any (lambda / (c * mu) < 1 is lambda < c * mu on
\* the rate grid)
QueueTheoretical ==
    IF c = 1 /\ lambda_rate < mu_rate
    THEN {"Theoretical M/M/1"}
    ELSE IF c > 1 /\ lambda_rate < c * mu_rate
         THEN {"Theoretical M/M/c"}
         ELSE {}

\* Comparison table, lines 202-219: drawn when rho_theoretical was assigned
\* by one of the two branches in this run
QueueComparison ==
    IF QueueTheoretical # {}
    THEN {"Theoretical vs. Simulated Comparison"}
    ELSE {}

\* Final statistics and Little's Law, lines 155-219: the subheaders the run
\* renders for session state s
QueueDisplay(s) ==
    IF s.time > 0
    THEN {"Simulated Results"} \cup QueueTheoretical \cup QueueComparison
    ELSE {}

\* One run of the script with `button` pressed
QueueScriptRun(button) ==
    /\ app = "queue"
    /\ LET s1 == QueueButtons(session_state, button)
           params == IF button = "reset" THEN {} ELSE step_params
       IN  IF QueueStepGuard(s1)
           THEN /\ Len(s1.queue_history) < MaxHist
                /\ \E d \in QueueDraws(s1) :
                      LET s2 == QueueSimulationStep(s1, d[1][1], d[2][1])
                      IN  /\ session_state' = QueueTail(s2)
                          /\ display' = QueueDisplay(s2)
                          /\ script_run' = [button |-> button,
                                            stepped |-> TRUE,
                                            dt |-> d[1], event |-> d[2]]
                /\ step_params' = params \cup {sidebar}
           ELSE /\ session_state' = QueueTail(s1)
                /\ display' = QueueDisplay(s1)
                /\ script_run' = [button |-> button, stepped |-> FALSE,
                                  dt |-> <<>>, event |-> <<>>]
                /\ step_params' = params
    /\ UNCHANGED <<app, sidebar>>

QueueStartStopRun == QueueScriptRun("start_stop")
QueueResetRun == QueueScriptRun("reset")
QueueRerun == QueueScriptRun("none")

NoRun == [button |-> "none", stepped |-> FALSE, dt |-> <<>>, event |-> <<>>]

InitQueueWith(rates) ==
    /\ app = "queue"
    /\ sidebar \in [lambda_rate : rates, mu_rate : rates, c : Servers,
                    T_MAX : Horizons]
    /\ session_state = QueueInitState
    /\ script_run = NoRun
    /\ display = {}
    /\ step_params = {}

InitQueue == InitQueueWith(Rates)

NextQueue == QueueStartStopRun \/ QueueResetRun \/ QueueRerun

SpecQueue == InitQueue /\ [][NextQueue]_vars

----------------------------------------------------------------------------
(* Repair System/sr_app.py *)

\* Session state init, lines 58-74
RepairInitState ==
    [running |-> FALSE, time |-> 0, state |-> 0, history |-> <<>>,
     time_in_state |-> [i \in 0 .. N |-> 0], step_pending |-> FALSE]

\* Start / Stop button, lines 79-81
RepairStartStop(s) == [s EXCEPT !.running = ~s.running]

\* mutant: Reset forgets the occupancy times
RepairReset_KeepsOccupancy(s) ==
    [s EXCEPT !.running = FALSE, !.time = 0, !.state = 0,
              !.history = << <<0, 0>> >>]

\* Reset button, lines 83-88
RepairReset(s) ==
    [s EXCEPT !.running = FALSE, !.time = 0, !.state = 0,
              !.history = << <<0, 0>> >>,
              !.time_in_state = [i \in 0 .. N |-> 0]]

RepairButtons(s, button) ==
    CASE button = "start_stop" -> RepairStartStop(s)
      [] button = "reset" -> RepairReset(s)
      [] OTHER -> s

\* Rates, lines 94-96
RepairBirthRate(s) == IF s.state < N THEN (N - s.state) * lambda_rate ELSE 0
\* mutant: the teams are taken to be repairing whatever the state
RepairDeathRate_Unguarded(s) == teams * mu_rate
RepairDeathRate(s) == IF s.state > 0 THEN Min(s.state, teams) * mu_rate ELSE 0
RepairTotalRate(s) == RepairBirthRate(s) + RepairDeathRate(s)

\* next_time = min(time + dt, T_MAX), line 102
RepairNextTime(s, dt) == Min(s.time + dt, T_MAX)

\* index i of the numpy array time_in_state (a negative index counts from
\* the end)
NpIndex(i) == IF i < 0 THEN i + N + 1 ELSE i

\* Occupancy time of the state being left and the clock, lines 104-105
RepairAccumulate(s, next_time) ==
    [s EXCEPT !.time_in_state[NpIndex(s.state)] = @ + (next_time - s.time),
              !.time = next_time]

\* mutant: the horizon test is strict
RepairAtHorizon_Strict(s) == s.time > T_MAX

\* the horizon test of line 107
RepairAtHorizon(s) == s.time >= T_MAX

\* lines 107-109: the step ends the run at the horizon
RepairTruncate(s) == [s EXCEPT !.running = FALSE]

\* Birth or death, lines 111-114
RepairEvent(s, isBirth) ==
    IF isBirth THEN [s EXCEPT !.state = @ + 1] ELSE [s EXCEPT !.state = @ - 1]

\* lines 116-118
RepairRecord(s) == [s EXCEPT !.history = Append(@, <<s.time, s.state>>)]

\* The draws simulation_step makes in state s: none when it returns at line
\* 99, a holding time alone when it returns at line 109, else a holding time
\* and the birth test of line 111
RepairDraws(s) ==
    IF RepairTotalRate(s) = 0
    THEN {<< <<>>, <<>> >>}
    ELSE LET Ends(dt) ==
                 RepairAtHorizon(RepairAccumulate(s, RepairNextTime(s, dt)))
         IN  {<< <<dt>>, <<>> >> :
                  dt \in {d \in Expovariate(RepairTotalRate(s)) : Ends(d)}}
             \cup
             {<< <<dt>>, <<u>> >> :
                  dt \in {d \in Expovariate(RepairTotalRate(s)) : ~Ends(d)},
                  u \in RandomLess(RepairBirthRate(s), RepairTotalRate(s))}

\* mutant: a state with nothing to wait for runs the clock out
RepairSimulationStep_ZeroRateJumps(s, dt, isBirth) ==
    IF RepairTotalRate(s) = 0
    THEN RepairTruncate(RepairAccumulate(s, T_MAX))
    ELSE LET s1 == RepairAccumulate(s, RepairNextTime(s, dt))
         IN  IF RepairAtHorizon(s1)
             THEN RepairTruncate(s1)
             ELSE RepairRecord(RepairEvent(s1, isBirth))

\* simulation_step(), lines 91-118, with the draws dt and isBirth
RepairSimulationStep(s, dt, isBirth) ==
    IF RepairTotalRate(s) = 0
    THEN s
    ELSE LET s1 == RepairAccumulate(s, RepairNextTime(s, dt))
         IN  IF RepairAtHorizon(s1)
             THEN RepairTruncate(s1)
             ELSE RepairRecord(RepairEvent(s1, isBirth))

\* mutant: the driver steps whenever a step is pending, running or not
RepairStepGuard_IgnoresRunning(s) == s.step_pending

\* driver guard, line 121
RepairStepGuard(s) == s.running /\ s.step_pending

\* line 123
RepairClearPending(s) == [s EXCEPT !.step_pending = FALSE]

\* mutant: the animation loop does not arm the next step
RepairTail_NeverArms(s) == s

\* animation loop, lines 258-261
RepairTail(s) ==
    IF s.running /\ s.time < T_MAX
    THEN [s EXCEPT !.step_pending = TRUE]
    ELSE s

\* Monte Carlo statistics, lines 195-219, and the theoretical section,
\* lines 241-256: the subheaders the run renders for session state s
RepairDisplay(s) ==
    (IF s.time > 0 THEN {"Estimated Steady-State Statistics"} ELSE {})
        \cup {"Theoretical"}

\* One run of the script with `button` pressed
RepairScriptRun(button) ==
    /\ app = "repair"
    /\ LET s1 == RepairButtons(session_state, button)
           params == IF button = "reset" THEN {} ELSE step_params
       IN  IF RepairStepGuard(s1)
           THEN /\ Len(s1.history) < MaxHist
                /\ \E d \in RepairDraws(s1) :
                      LET s2 == RepairClearPending(
                                    RepairSimulationStep(s1, d[1][1], d[2][1]))
                      IN  /\ session_state' = RepairTail(s2)
                          /\ display' = RepairDisplay(s2)
                          /\ script_run' = [button |-> button,
                                            stepped |-> TRUE,
                                            dt |-> d[1], event |-> d[2]]
                /\ step_params' = params \cup {sidebar}
           ELSE /\ session_state' = RepairTail(s1)
                /\ display' = RepairDisplay(s1)
                /\ script_run' = [button |-> button, stepped |-> FALSE,
                                  dt |-> <<>>, event |-> <<>>]
                /\ step_params' = params
    /\ UNCHANGED <<app, sidebar>>

RepairStartStopRun == RepairScriptRun("start_stop")
RepairResetRun == RepairScriptRun("reset")
RepairRerun == RepairScriptRun("none")

InitRepairWith(rates) ==
    /\ app = "repair"
    /\ sidebar \in [lambda_rate : rates, mu_rate : rates, teams : Teams,
                    T_MAX : Horizons]
    /\ session_state = RepairInitState
    /\ script_run = NoRun
    /\ display = {}
    /\ step_params = {}

InitRepair == InitRepairWith(Rates)

NextRepair == RepairStartStopRun \/ RepairResetRun \/ RepairRerun

SpecRepair == InitRepair /\ [][NextRepair]_vars

----------------------------------------------------------------------------
(* Both engines: a session runs one of the two pages *)

Init == InitQueue \/ InitRepair

Next == NextQueue \/ NextRepair

Spec == Init /\ [][Next]_vars

\* Both pages with holding times bounded below by one time quantum, and the
\* rerun that the animation loop of a running page requests (queue.py:222-225,
\* sr_app.py:258-261: sleep, then st.rerun()) always eventually carried out.
PositiveDt == script_run'.dt # <<0>>

QueueAutoRerun ==
    /\ session_state.running /\ session_state.time < T_MAX
    /\ QueueRerun /\ PositiveDt

RepairAutoRerun ==
    /\ session_state.running /\ session_state.time < T_MAX
    /\ RepairRerun /\ PositiveDt

NextLive == Next /\ PositiveDt

SpecLive ==
    /\ Init /\ [][NextLive]_vars
    /\ WF_vars(QueueAutoRerun) /\ WF_vars(RepairAutoRerun)

\* The same two pages with the rate sliders widened to include 0: the domain
\* of simulation_step as a function of its rate parameters.  The sliders of
\* the pages themselves have positive minima.
AnyRates == 0 .. MaxRate

InitAnyRate == InitQueueWith(AnyRates) \/ InitRepairWith(AnyRates)

SpecAnyRate == InitAnyRate /\ [][Next]_vars

\* The sidebar settings of the page of this session
Sidebars ==
    IF app = "queue"
    THEN [lambda_rate : Rates, mu_rate : Rates, c : Servers, T_MAX : Horizons]
    ELSE [lambda_rate : Rates, mu_rate : Rates, teams : Teams,
          T_MAX : Horizons]

\* The user moves a slider or picks another selectbox entry: the widgets
\* hold new values, which every later script run reads (queue.py:22-25,
\* sr_app.py:30-37).  Nothing in either page resets the engine when a
\* widget value changes.
SidebarChange ==
    /\ Cardinality(step_params \cup {sidebar}) < MaxSettings
    /\ sidebar' \in Sidebars \ {sidebar}
    /\ UNCHANGED <<app, session_state, script_run, display, step_params>>

\* Both pages with the sidebar widgets free to change between script runs
NextParams == Next \/ SidebarChange

SpecParams == Init /\ [][NextParams]_vars

----------------------------------------------------------------------------
(* Traffic Lights System/sfc_app.py *)

\* Bounds of the traffic page
\* largest value the two green-time sliders are taken to be set to
MaxGreen == 2
\* no car is spawned once next_car_id has reached this many
MaxCars == 1
\* no tick happens once simulation_time has reached this many seconds
MaxSimTime == 3

green_min == sidebar.green_min
green_max == sidebar.green_max
arrival_rate == sidebar.arrival_rate

\* Values of the green-time sliders: both start at 1 and are independent of
\* each other, so green_min > green_max can be set.
Greens == 1 .. MaxGreen
\* Values of the arrival-rate slider (cars per minute): its default and its
\* maximum, at which the spawn test of a tick cannot fail.
ArrivalRates == {8, 60}

directions == {"ns", "sn", "ew", "we"}

\* The possible results of random.randint(a, b); the call raises ValueError
\* when the range is empty.
Randint(a, b) == a .. b

Abs(n) == IF n < 0 THEN -n ELSE n

TrafficStatistics ==
    [total_cars_served |-> 0, wait_times |-> <<>>,
     queue_lengths_ns |-> <<>>, queue_lengths_ew |-> <<>>,
     phase_changes |-> 0,
     cars_per_direction |-> [d \in directions |-> 0]]

\* st.session_state after the first script run.  last_update holds wall-clock
\* time and enters only the test "a second has passed" of the tick, which is
\* an input of the script run.
TrafficInitState ==
    [phase |-> 0, running |-> FALSE, timer |-> 0, duration |-> 5,
     cars |-> <<>>, car_spawn_counter |-> 0, next_car_id |-> 0,
     simulation_time |-> 0, statistics |-> TrafficStatistics,
     departed_cars |-> <<>>]

\* class Car.  service_start_time is <<>> for None.  The emoji is decoration
\* of the rendered car and is left out; departure_time is set only on cars
\* that are dropped from the road in the same run and is kept in
\* departed_cars.
Car(direction, car_id, arrival_time) ==
    [direction |-> direction, id |-> car_id, arrival_time |-> arrival_time,
     service_start_time |-> <<>>,
     x |-> CASE direction = "ns" -> 260
             [] direction = "sn" -> 315
             [] direction = "ew" -> 630
             [] direction = "we" -> -30,
     y |-> CASE direction = "ns" -> -30
             [] direction = "sn" -> 630
             [] direction = "ew" -> 250
             [] direction = "we" -> 315]

speed == 10
safe_distance == 40

is_in_intersection(self) ==
    CASE self.direction = "ns" -> 200 < self.y /\ self.y < 250
      [] self.direction = "sn" -> 350 < self.y /\ self.y < 400
      [] self.direction = "ew" -> 350 < self.x /\ self.x < 400
      [] self.direction = "we" -> 200 < self.x /\ self.x < 250

is_blocking_AtSamePlace(self, other_car) ==
    IF self.direction \in {"ns", "sn"}
    THEN \/ /\ other_car.direction = self.direction
            /\ Abs(other_car.y - self.y) < safe_distance
            /\ \/ self.direction = "ns" /\ other_car.y >= self.y
               \/ self.direction = "sn" /\ other_car.y <= self.y
         \/ /\ other_car.direction \in {"we", "ew"}
            /\ is_in_intersection(self)
            /\ Abs(other_car.x - self.x) < safe_distance
            /\ Abs(other_car.y - self.y) < safe_distance
    ELSE \/ /\ other_car.direction = self.direction
            /\ Abs(other_car.x - self.x) < safe_distance
            /\ \/ self.direction = "ew" /\ other_car.x <= self.x
               \/ self.direction = "we" /\ other_car.x >= self.x
         \/ /\ other_car.direction \in {"ns", "sn"}
            /\ is_in_intersection(self)
            /\ Abs(other_car.x - self.x) < safe_distance
            /\ Abs(other_car.y - self.y) < safe_distance

is_blocking(self, other_car) ==
    IF self.direction \in {"ns", "sn"}
    THEN \/ /\ other_car.direction = self.direction
            /\ Abs(other_car.y - self.y) < safe_distance
            /\ \/ self.direction = "ns" /\ other_car.y > self.y
               \/ self.direction = "sn" /\ other_car.y < self.y
         \/ /\ other_car.direction \in {"we", "ew"}
            /\ is_in_intersection(self)
            /\ Abs(other_car.x - self.x) < safe_distance
            /\ Abs(other_car.y - self.y) < safe_distance
    ELSE \/ /\ other_car.direction = self.direction
            /\ Abs(other_car.x - self.x) < safe_distance
            /\ \/ self.direction = "ew" /\ other_car.x < self.x
               \/ self.direction = "we" /\ other_car.x > self.x
         \/ /\ other_car.direction \in {"ns", "sn"}
            /\ is_in_intersection(self)
            /\ Abs(other_car.x - self.x) < safe_distance
            /\ Abs(other_car.y - self.y) < safe_distance

update_IgnoresLight(self, can_move, cars_ahead, current_time) ==
    LET car_blocking ==
            \E i \in 1 .. Len(cars_ahead) :
                /\ cars_ahead[i].id # self.id
                /\ is_blocking(self, cars_ahead[i])
    IN  IF car_blocking THEN self
        ELSE CASE self.direction = "ns" -> [self EXCEPT !.y = @ + speed]
               [] self.direction = "sn" -> [self EXCEPT !.y = @ - speed]
               [] self.direction = "ew" -> [self EXCEPT !.x = @ - speed]
               [] self.direction = "we" -> [self EXCEPT !.x = @ + speed]

\* Car.update: the car after the call
update(self, can_move, cars_ahead, current_time) ==
    LET car_blocking ==
            \E i \in 1 .. Len(cars_ahead) :
                /\ cars_ahead[i].id # self.id
                /\ is_blocking(self, cars_ahead[i])
        served == IF is_in_intersection(self) /\ self.service_start_time = <<>>
                  THEN [self EXCEPT !.service_start_time = <<current_time>>]
                  ELSE self
    IN  IF car_blocking THEN self
        ELSE IF is_in_intersection(self) /\ ~can_move THEN self
        ELSE CASE self.direction = "ns" -> [served EXCEPT !.y = @ + speed]
               [] self.direction = "sn" -> [served EXCEPT !.y = @ - speed]
               [] self.direction = "ew" -> [served EXCEPT !.x = @ - speed]
               [] self.direction = "we" -> [served EXCEPT !.x = @ + speed]

is_off_screen(self) ==
    self.x < -50 \/ self.x > 650 \/ self.y < -50 \/ self.y > 650

\* get_light_state(direction) with st.session_state = s
get_light_state(s, direction) ==
    IF s.phase = 0
    THEN CASE direction = "ns" -> "green"
           [] direction = "ew" -> "red"
           [] direction = "ns_ped" -> "red"
           [] direction = "ew_ped" -> "green"
           [] OTHER -> "red"
    ELSE IF s.phase = 1
    THEN CASE direction = "ns" -> "red"
           [] direction = "ew" -> "green"
           [] direction = "ns_ped" -> "green"
           [] direction = "ew_ped" -> "red"
           [] OTHER -> "red"
    ELSE "red"

\* The Start/Stop button (it also sets last_update to the time of the press,
\* so no tick is due in the run of the press)
TrafficStartStop(s) == [s EXCEPT !.running = ~@]

\* The Reset button, random.randint(green_min, green_max) having returned
\* new_duration
TrafficReset(s, new_duration) ==
    [TrafficInitState EXCEPT !.duration = new_duration]

\* The Reset button with green_min > green_max: random.randint raises
\* ValueError after the first three assignments and the script run ends
TrafficResetRaised(s) ==
    [s EXCEPT !.phase = 0, !.running = FALSE, !.timer = 0]

TrafficButtons(s, button, new_duration) ==
    CASE button = "start_stop" -> TrafficStartStop(s)
      [] button = "reset" -> TrafficReset(s, new_duration)
      [] OTHER -> s

TrafficTickClock_TimerStuck(s) == [s EXCEPT !.simulation_time = @ + 1]

\* The tick, once a second while running: the two clocks advance
TrafficTickClock(s) ==
    [s EXCEPT !.timer = @ + 1, !.simulation_time = @ + 1]

TrafficPhaseDue_Late(s) == s.timer > s.duration

TrafficPhaseDue(s) == s.timer >= s.duration

TrafficNextPhase_NoWrap(phase) == phase + 1

TrafficNextPhase(phase) == (phase + 1) % 2

TrafficPhaseChange(s, new_duration) ==
    [s EXCEPT !.phase = TrafficNextPhase(@), !.timer = 0,
              !.duration = new_duration,
              !.statistics.phase_changes = @ + 1]

\* The phase change with green_min > green_max: random.randint raises
\* ValueError after phase and timer are assigned and the script run ends
TrafficPhaseChangeRaised(s) ==
    [s EXCEPT !.phase = TrafficNextPhase(@), !.timer = 0]

TrafficSpawn_ReusesId(s, counted, created) ==
    [s EXCEPT !.cars = Append(@, Car(created, s.next_car_id,
                                     s.simulation_time)),
              !.statistics.cars_per_direction[counted] = @ + 1,
              !.car_spawn_counter = 0]

\* A car is spawned: `counted` is the first random.choice(directions), whose
\* counter is incremented; `created` is the second one, passed to Car(...)
TrafficSpawn(s, counted, created) ==
    [s EXCEPT !.cars = Append(@, Car(created, s.next_car_id,
                                     s.simulation_time)),
              !.statistics.cars_per_direction[counted] = @ + 1,
              !.car_spawn_counter = 0,
              !.next_car_id = @ + 1]

\* The queue lengths of the tick, recorded when positive; ns_can_move and
\* ew_can_move are the light states computed before the tick
TrafficRecordQueues(s, ns_can_move, ew_can_move) ==
    LET NsWaiting(car) ==
            \/ car.direction = "ns" /\ car.y < 260 /\ ~ns_can_move
            \/ car.direction = "sn" /\ car.y > 340 /\ ~ns_can_move
        EwWaiting(car) ==
            \/ car.direction = "ew" /\ car.x > 340 /\ ~ew_can_move
            \/ car.direction = "we" /\ car.x < 210 /\ ~ew_can_move
        ns_queue ==
            Cardinality({i \in 1 .. Len(s.cars) : NsWaiting(s.cars[i])})
        ew_queue ==
            Cardinality({i \in 1 .. Len(s.cars) : EwWaiting(s.cars[i])})
    IN  [s EXCEPT !.statistics.queue_lengths_ns =
                      IF ns_queue > 0 THEN Append(@, ns_queue) ELSE @,
                  !.statistics.queue_lengths_ew =
                      IF ew_queue > 0 THEN Append(@, ew_queue) ELSE @]

\* The random draws of a tick whose clocks have advanced to s: the new
\* duration (<<>> when no phase change is due) and the two directions of the
\* spawned car (<<>> when the spawn test fails)
TrafficTickDraws(s) ==
    [duration : IF TrafficPhaseDue(s)
                THEN {<<d>> : d \in Randint(green_min, green_max)}
                ELSE {<<>>},
     spawn : {<<>> : u \in RandomLess(arrival_rate, 60) \ {TRUE}}
             \cup {<<counted, created>> :
                     counted \in {d \in directions :
                                    TRUE \in RandomLess(arrival_rate, 60)},
                     created \in directions}]

\* The tick (sfc_app.py:242-278) with the given draws
TrafficTick(s, draws, ns_can_move, ew_can_move) ==
    LET s1 == TrafficTickClock(s)
        s2 == IF TrafficPhaseDue(s1)
              THEN TrafficPhaseChange(s1, draws.duration[1])
              ELSE s1
        s3 == IF draws.spawn # <<>>
              THEN TrafficSpawn(s2, draws.spawn[1], draws.spawn[2])
              ELSE s2
    IN  TrafficRecordQueues(s3, ns_can_move, ew_can_move)

\* for car in cars: car.update(...), in list order; each car sees the cars
\* before it in the list where this loop has already put them
RECURSIVE TrafficUpdateCars(_, _, _, _, _)
TrafficUpdateCars(cars, i, ns_can_move, ew_can_move, current_time) ==
    IF i > Len(cars) THEN cars
    ELSE LET can_move == IF cars[i].direction \in {"ns", "sn"}
                         THEN ns_can_move ELSE ew_can_move
         IN  TrafficUpdateCars(
                 [cars EXCEPT ![i] = update(@, can_move, cars, current_time)],
                 i + 1, ns_can_move, ew_can_move, current_time)

\* The cars that went off screen are entered in the statistics and dropped
TrafficRemoveOffScreen(s) ==
    LET gone == SelectSeq(s.cars, is_off_screen)
        wait_time(car) == s.simulation_time - car.arrival_time
    IN  [s EXCEPT
            !.statistics.wait_times =
                @ \o [i \in 1 .. Len(gone) |-> wait_time(gone[i])],
            !.statistics.total_cars_served = @ + Len(gone),
            !.departed_cars =
                @ \o [i \in 1 .. Len(gone) |->
                        [id |-> gone[i].id, direction |-> gone[i].direction,
                         arrival |-> gone[i].arrival_time,
                         departure |-> s.simulation_time,
                         wait_time |-> wait_time(gone[i])]],
            !.cars = SelectSeq(@, LAMBDA car : ~is_off_screen(car))]

\* The part of a script run below the tick (sfc_app.py:282-303)
TrafficMoveCars(s, ns_can_move, ew_can_move) ==
    TrafficRemoveOffScreen(
        [s EXCEPT !.cars = TrafficUpdateCars(@, 1, ns_can_move, ew_can_move,
                                             s.simulation_time)])

\* The four signals the page renders
TrafficDisplay(s) ==
    [d \in {"ns", "ew", "ns_ped", "ew_ped"} |-> get_light_state(s, d)]

TrafficNoRun ==
    [button |-> "none", ticked |-> FALSE, raised |-> FALSE,
     ns_can_move |-> TRUE, ew_can_move |-> FALSE,
     duration |-> <<>>, spawn |-> <<>>]

\* One script run of the traffic page.  `elapsed` tells whether a second has
\* passed since last_update.  A run ends at the st.rerun() of the tick, at a
\* ValueError of random.randint, or at the bottom of the script.  No tick
\* happens once simulation_time has reached max_time, and no car is spawned
\* once next_car_id has reached max_cars.
TrafficScriptRunWith(button, elapsed, max_cars, max_time) ==
    /\ app = "traffic"
    /\ IF button = "reset" /\ Randint(green_min, green_max) = {}
       THEN /\ session_state' = TrafficResetRaised(session_state)
            /\ script_run' = [TrafficNoRun EXCEPT !.button = button,
                                                  !.raised = TRUE]
            /\ display' = display
       ELSE \E new_duration \in IF button = "reset"
                                THEN Randint(green_min, green_max)
                                ELSE {session_state.duration} :
              LET s1 == TrafficButtons(session_state, button, new_duration)
                  ns_can_move == get_light_state(s1, "ns") = "green"
                  ew_can_move == get_light_state(s1, "ew") = "green"
                  run == [TrafficNoRun EXCEPT !.button = button,
                                              !.ns_can_move = ns_can_move,
                                              !.ew_can_move = ew_can_move]
              IN  IF s1.running /\ elapsed
                  THEN /\ s1.simulation_time < max_time
                       /\ IF /\ TrafficPhaseDue(TrafficTickClock(s1))
                             /\ Randint(green_min, green_max) = {}
                          THEN /\ session_state' = TrafficPhaseChangeRaised(
                                                       TrafficTickClock(s1))
                               /\ script_run' = [run EXCEPT !.ticked = TRUE,
                                                            !.raised = TRUE]
                          ELSE \E draws \in
                                   TrafficTickDraws(TrafficTickClock(s1)) :
                                 /\ draws.spawn # <<>>
                                        => s1.next_car_id < max_cars
                                 /\ session_state' =
                                        TrafficTick(s1, draws, ns_can_move,
                                                    ew_can_move)
                                 /\ script_run' =
                                        [run EXCEPT
                                            !.ticked = TRUE,
                                            !.duration = draws.duration,
                                            !.spawn = draws.spawn]
                       /\ display' = display
                  ELSE /\ session_state' =
                              TrafficMoveCars(s1, ns_can_move, ew_can_move)
                       /\ script_run' = run
                       /\ display' = TrafficDisplay(s1)
    /\ UNCHANGED <<app, sidebar, step_params>>

TrafficScriptRun(button, elapsed) ==
    TrafficScriptRunWith(button, elapsed, MaxCars, MaxSimTime)

TrafficStartStopRun == TrafficScriptRun("start_stop", FALSE)

TrafficResetRun == TrafficScriptRun("reset", FALSE)

\* A rerun with no button pressed and no tick due: the animation loop of a
\* running page (sfc_app.py:386-389), or any other widget interaction
TrafficRerun == TrafficScriptRun("none", FALSE)

\* A rerun of the running page a second or more after last_update
TrafficTickRun == session_state.running /\ TrafficScriptRun("none", TRUE)

InitTraffic ==
    /\ app = "traffic"
    /\ sidebar \in [green_min : Greens, green_max : Greens,
                    arrival_rate : ArrivalRates]
    /\ session_state = TrafficInitState
    /\ script_run = TrafficNoRun
    /\ display = TrafficDisplay(TrafficInitState)
    /\ step_params = {}

NextTraffic ==
    TrafficStartStopRun \/ TrafficResetRun \/ TrafficRerun \/ TrafficTickRun

SpecTraffic == InitTraffic /\ [][NextTraffic]_vars

\* The traffic page with two cars on the road.  To keep the two-car state
\* space small the sliders are at green_min = green_max = 1 and at the
\* largest arrival rate, where every tick spawns a car.
MaxPairCars == 2
MaxPairTime == 2

TrafficPairScriptRun(button, elapsed) ==
    TrafficScriptRunWith(button, elapsed, MaxPairCars, MaxPairTime)

TrafficPairStartStopRun == TrafficPairScriptRun("start_stop", FALSE)

TrafficPairResetRun == TrafficPairScriptRun("reset", FALSE)

TrafficPairRerun == TrafficPairScriptRun("none", FALSE)

TrafficPairTickRun ==
    session_state.running /\ TrafficPairScriptRun("none", TRUE)

InitTrafficPair ==
    /\ InitTraffic
    /\ sidebar = [green_min |-> 1, green_max |-> 1, arrival_rate |-> 60]

NextTrafficPair ==
    \/ TrafficPairStartStopRun \/ TrafficPairResetRun
    \/ TrafficPairRerun \/ TrafficPairTickRun

SpecTrafficPair == InitTrafficPair /\ [][NextTrafficPair]_vars

\* The lights of the traffic page over a longer time: the runs in which the
\* spawn test of every tick fails, so that no car is on the road (the phase
\* logic reads nothing of the cars), with a tick always eventually
\* happening while the page is running.  At the largest arrival rate the
\* spawn test cannot fail; the slider is below it.
MaxLightTime == 8

TrafficLightsScriptRun(button, elapsed) ==
    TrafficScriptRunWith(button, elapsed, 0, MaxLightTime)

TrafficLightsStartStopRun == TrafficLightsScriptRun("start_stop", FALSE)

TrafficLightsResetRun == TrafficLightsScriptRun("reset", FALSE)

TrafficLightsRerun == TrafficLightsScriptRun("none", FALSE)

TrafficLightsTickRun ==
    session_state.running /\ TrafficLightsScriptRun("none", TRUE)

InitTrafficLights == InitTraffic /\ arrival_rate < 60

NextTrafficLights ==
    \/ TrafficLightsStartStopRun \/ TrafficLightsResetRun
    \/ TrafficLightsRerun \/ TrafficLightsTickRun

SpecTrafficLights ==
    /\ InitTrafficLights /\ [][NextTrafficLights]_vars
    /\ WF_vars(TrafficLightsTickRun)

\* The two-car page with a tick always eventually happening while the page
\* is running, and the rerun of the animation loop (sfc_app.py:386-389)
\* always eventually carried out while it changes anything
SpecTrafficPairLive ==
    /\ SpecTrafficPair
    /\ WF_vars(TrafficPairTickRun) /\ WF_vars(TrafficPairRerun)

----------------------------------------------------------------------------
(* Properties *)

IsQueue == app = "queue"
IsRepair == app = "repair"

\* the last script run called simulation_step
Stepped == script_run.stepped
\* the last script run drew a holding time / tested an event
DrewDt == script_run.dt # <<>>
DrewEvent == script_run.event # <<>>

\* C1: in the queue engine with fixed parameters, whenever customers are
\* waiting every server is busy: queue_length > 0 implies busy_servers = c.
C1_QueuedImpliesAllBusy ==
    IsQueue => (session_state.queue > 0 => session_state.busy = c)

\* C1 witness: a step has left customers waiting
C1_Witness ==
    IsQueue /\ Stepped /\ session_state.queue > 0 /\ session_state.served > 0

\* C2: in the queue engine with fixed parameters queue_length >= 0 and
\* 0 <= busy_servers <= c always hold, a service completion never fires
\* when no server is busy, and an arrival never raises busy_servers above c.
C2_QueueStateRanges ==
    /\ [](IsQueue => /\ session_state.queue >= 0
                     /\ session_state.busy >= 0
                     /\ session_state.busy <= c)
    /\ [][(IsQueue /\ script_run'.event = <<FALSE>>)
              => session_state.busy > 0]_vars
    /\ [][(IsQueue /\ script_run'.event = <<TRUE>>)
              => session_state'.busy <= c]_vars

\* C2 witness: a service completion has emptied the last busy server, and
\* an arrival has found every server busy
C2_Witness ==
    /\ IsQueue /\ script_run.event = <<FALSE>>
    /\ session_state.busy = 0 /\ session_state.arrivals > c

\* C3: in the repair engine 0 <= failed_units <= N always holds, a birth
\* never fires in state N and a death never fires in state 0.
C3_RepairStateRange ==
    /\ [](IsRepair => session_state.state >= 0 /\ session_state.state <= N)
    /\ [][(IsRepair /\ script_run'.event = <<TRUE>>)
              => session_state.state < N]_vars
    /\ [][(IsRepair /\ script_run'.event = <<FALSE>>)
              => session_state.state > 0]_vars

\* C3 witness: every machine has failed
C3_Witness == IsRepair /\ Stepped /\ session_state.state = N

\* C4: in both engines, with the horizon fixed, 0 <= current_time <= T_MAX
\* always holds and a simulation step never decreases current_time.
C4_ClockWithinHorizon ==
    /\ [](session_state.time >= 0 /\ session_state.time <= T_MAX)
    /\ [][script_run'.stepped => session_state'.time >= session_state.time]_vars

\* C4 witness: a step whose holding time alone exceeds the horizon has run
\* in the repair engine
C4_Witness ==
    /\ IsRepair /\ Stepped /\ DrewDt /\ script_run.dt[1] > T_MAX
    /\ session_state.time = T_MAX

\* C5 (as claimed): a queue step whose holding time carries the clock past
\* the horizon sets current_time to the horizon and applies no transition:
\* queue_length, busy_servers, arrivals and served keep their values.
\* (Stated for the steps that overshoot the horizon strictly, the case
\* every reading of the claim covers.)
C5_QueueTruncationAppliesNoTransition ==
    [][(/\ IsQueue /\ script_run'.stepped /\ script_run'.dt # <<>>
        /\ session_state.time + script_run'.dt[1] > T_MAX)
       => /\ session_state'.time = T_MAX
          /\ session_state'.queue = session_state.queue
          /\ session_state'.busy = session_state.busy
          /\ session_state'.arrivals = session_state.arrivals
          /\ session_state'.served = session_state.served]_vars

\* C6: a repair step whose holding time carries the clock to or past the
\* horizon sets current_time to the horizon, adds horizon - previous time
\* to time_in_state of the current state, and leaves failed_units unchanged.
C6_RepairTruncation ==
    [][(/\ IsRepair /\ script_run'.stepped /\ script_run'.dt # <<>>
        /\ session_state.time + script_run'.dt[1] >= T_MAX)
       => /\ session_state'.time = T_MAX
          /\ session_state'.time_in_state =
                [session_state.time_in_state
                    EXCEPT ![session_state.state] =
                               @ + (T_MAX - session_state.time)]
          /\ session_state'.state = session_state.state]_vars

\* C6 witness: a truncated repair step has run from a state with failed
\* machines, after time had already passed
C6_Witness ==
    /\ IsRepair /\ Stepped /\ DrewDt /\ ~DrewEvent
    /\ session_state.time = T_MAX /\ session_state.state > 0
    /\ session_state.time_in_state[session_state.state] > 0
    /\ script_run.dt[1] > 0

\* the engine data of the two pages: clock, system state, event counters
\* and time-weighted accumulators
EngineData(s) ==
    IF IsQueue
    THEN <<s.time, s.queue, s.busy, s.arrivals, s.served, s.queue_time,
           s.busy_time>>
    ELSE <<s.time, s.state, s.time_in_state>>

\* the plotted history of the two pages
EngineHistory(s) ==
    IF IsQueue THEN <<s.queue_history, s.time_history>> ELSE <<s.history>>

\* C7: in both engines, once current_time equals the horizon no script run
\* other than one pressing Reset changes the clock, the system state, the
\* event counters or the time-weighted accumulators.
C7_TerminalIsAbsorbing ==
    [][(session_state.time = T_MAX /\ script_run'.button # "reset")
       => EngineData(session_state') = EngineData(session_state)]_vars

\* C7 witness: Start has been pressed again at the horizon of the repair
\* engine
C7_Witness ==
    /\ IsRepair /\ session_state.time = T_MAX
    /\ script_run.button = "start_stop" /\ session_state.running

\* total competing rate of the state the step reads
EngineTotalRate(s) ==
    IF IsQueue THEN QueueTotalRate(s) ELSE RepairTotalRate(s)

\* C8: in both engines a step taken in a state whose total competing rate
\* is zero changes neither the clock, the system state, the history nor
\* any accumulator.
C8_ZeroRateStepIsNoOp ==
    [][(script_run'.stepped /\ EngineTotalRate(session_state) = 0)
       => /\ EngineData(session_state') = EngineData(session_state)
          /\ EngineHistory(session_state') = EngineHistory(session_state)]_vars

\* C8 witness: the repair engine, with no repairs possible, has stepped in
\* the state where every machine is down and found nothing to draw
C8_Witness ==
    /\ IsRepair /\ Stepped /\ ~DrewDt
    /\ session_state.state = N /\ session_state.time > 0

\* C9: every queue step adds pre-step queue_length * (next_time - time) to
\* queue_time and pre-step busy_servers * (next_time - time) to busy_time.
C9_QueueWeightsStateLeft ==
    [][(IsQueue /\ script_run'.stepped)
       => LET elapsed == session_state'.time - session_state.time
          IN  /\ session_state'.queue_time =
                    session_state.queue_time + session_state.queue * elapsed
              /\ session_state'.busy_time =
                    session_state.busy_time + session_state.busy * elapsed]_vars

\* C9 witness: a step over a positive interval has left a state with
\* waiting customers by a service completion
C9_Witness ==
    /\ IsQueue /\ Stepped /\ DrewDt /\ script_run.dt[1] > 0
    /\ script_run.event = <<FALSE>>
    /\ session_state.queue_time > 0 /\ session_state.busy_time > 0
    /\ session_state.queue_history[Len(session_state.queue_history)] > 0

\* sum of f over 0 .. n
RECURSIVE SumTo(_, _)
SumTo(f, n) == IF n < 0 THEN 0 ELSE f[n] + SumTo(f, n - 1)

\* C10: in the repair engine the occupancy times of the states 0 .. N
\* always add up to current_time.
C10_OccupancySumsToTime ==
    IsRepair => SumTo(session_state.time_in_state, N) = session_state.time

\* C10 witness: time has been spent in two states, up to the horizon
C10_Witness ==
    /\ IsRepair /\ session_state.time = T_MAX
    /\ session_state.time_in_state[0] > 0
    /\ session_state.time_in_state[1] > 0


\* C11: queue transition effects.  An arrival takes a server (busy + 1,
\* queue unchanged) if busy < c and otherwise joins the queue (queue + 1,
\* busy unchanged); a service completion takes the next waiting customer
\* (queue - 1, busy unchanged) if queue > 0 and otherwise frees a server
\* (busy - 1, queue stays 0).
C11_QueueTransitionEffects ==
    [][IsQueue =>
       LET q == session_state.queue
           b == session_state.busy
           q2 == session_state'.queue
           b2 == session_state'.busy
       IN  /\ script_run'.event = <<TRUE>> =>
                 IF b < c THEN b2 = b + 1 /\ q2 = q
                          ELSE q2 = q + 1 /\ b2 = b
           /\ script_run'.event = <<FALSE>> =>
                 IF q > 0 THEN q2 = q - 1 /\ b2 = b
                          ELSE b2 = b - 1 /\ q2 = 0]_vars

\* C11 witness: a completion has freed a server after customers had queued
\* and been taken into service
C11_Witness ==
    /\ IsQueue /\ script_run.event = <<FALSE>>
    /\ session_state.queue = 0 /\ session_state.busy = c - 1
    /\ session_state.arrivals > c

\* C12: queue customer conservation.  Every fired transition increments
\* exactly one of arrivals and served by one, and arrivals = served +
\* queue_length + busy_servers in every reachable state, hence served <=
\* arrivals.
C12_CustomerConservation ==
    /\ [](IsQueue => /\ session_state.arrivals =
                           session_state.served + session_state.queue
                               + session_state.busy
                     /\ session_state.served <= session_state.arrivals)
    /\ [][(IsQueue /\ script_run'.event # <<>>) =>
          LET da == session_state'.arrivals - session_state.arrivals
              ds == session_state'.served - session_state.served
          IN  \/ da = 1 /\ ds = 0
              \/ da = 0 /\ ds = 1]_vars

\* C12 witness: customers have been served, are in service and are waiting
C12_Witness ==
    /\ IsQueue /\ session_state.served > 0 /\ session_state.queue > 0
    /\ session_state.busy > 0

\* C13 (as claimed): after a queue step that fires a transition, the last
\* queue length recorded in queue_history is the queue_length the engine
\* holds after that step.
C13_HistoryRecordsNewState ==
    [][(IsQueue /\ script_run'.event # <<>>) =>
          session_state'.queue_history[Len(session_state'.queue_history)]
              = session_state'.queue]_vars


\* a is an initial segment of b
IsPrefix(a, b) == Len(a) <= Len(b) /\ SubSeq(b, 1, Len(a)) = a

\* the sample times of the history, in order
HistoryTimes(s) ==
    IF IsQueue THEN s.time_history
    ELSE [i \in 1 .. Len(s.history) |-> s.history[i][1]]

\* the sequence is non-decreasing
NonDecreasing(seq) ==
    \A i \in 1 .. Len(seq) - 1 : seq[i] <= seq[i + 1]

\* one history sequence of the engine extends another by at most one sample
ExtendsByAtMostOne(old, new) ==
    IsPrefix(old, new) /\ Len(new) <= Len(old) + 1

\* C14: in both engines the history is append-only and time-ordered.  A
\* script run that does not press Reset keeps every recorded sample and
\* appends at most one, the sample times are non-decreasing, and in the
\* queue engine queue_history and time_history have the same length.
C14_HistoryAppendOnly ==
    /\ [](NonDecreasing(HistoryTimes(session_state)))
    /\ [](IsQueue => Len(session_state.queue_history)
                        = Len(session_state.time_history))
    /\ [][script_run'.button # "reset" =>
            IF IsQueue
            THEN /\ ExtendsByAtMostOne(session_state.queue_history,
                                       session_state'.queue_history)
                 /\ ExtendsByAtMostOne(session_state.time_history,
                                       session_state'.time_history)
            ELSE ExtendsByAtMostOne(session_state.history,
                                    session_state'.history)]_vars

\* C14 witness: the repair history holds samples taken at three different
\* times after a Reset
C14_Witness ==
    /\ IsRepair /\ Len(session_state.history) >= 3
    /\ session_state.history[1] = <<0, 0>>
    /\ session_state.history[2][1] > 0
    /\ session_state.history[3][1] > session_state.history[2][1]

\* C15 (as claimed): no trajectory mixes parameter values.  All the steps
\* taken since the engine was last reset have read the same rate
\* parameters, server / team count and horizon.
C15_ParametersFixedWithinTrajectory == Cardinality(step_params) <= 1


\* the session state of a freshly initialised instance of the page
EngineInitState == IF IsQueue THEN QueueInitState ELSE RepairInitState

\* C16 (as claimed): in both engines a script run that presses Reset leaves
\* exactly the engine state of a fresh instance: clock 0, the starting
\* system state, zero counters and accumulators, and the history of first
\* initialisation.
C16_ResetIsTotal ==
    [][script_run'.button = "reset" =>
          /\ EngineData(session_state') = EngineData(EngineInitState)
          /\ EngineHistory(session_state') = EngineHistory(EngineInitState)]_vars

\* the value of running that the driver guard of the run reads: Start/Stop
\* has toggled it, Reset has cleared it
RunningAtGuard(s, button) ==
    CASE button = "start_stop" -> ~s.running
      [] button = "reset" -> FALSE
      [] OTHER -> s.running

\* C17: only the step and Reset mutate engine data.  In both engines a
\* script run in which running is False at the driver guard and Reset is
\* not pressed leaves the clock, the system state, the counters, the
\* accumulators and the history unchanged; and in the repair engine a run
\* calls simulation_step only when running and step_pending are both set.
C17_OnlyStepMutates ==
    /\ [][(/\ script_run'.button # "reset"
           /\ ~RunningAtGuard(session_state, script_run'.button))
          => /\ EngineData(session_state') = EngineData(session_state)
             /\ EngineHistory(session_state') = EngineHistory(session_state)
             /\ ~script_run'.stepped]_vars
    /\ [][(IsRepair /\ script_run'.stepped)
          => /\ RunningAtGuard(session_state, script_run'.button)
             /\ session_state.step_pending]_vars

\* C17 witness: Stop has been pressed in the repair page while a step was
\* pending, and the run has not stepped
C17_Witness ==
    /\ IsRepair /\ script_run.button = "start_stop" /\ ~script_run.stepped
    /\ ~session_state.running /\ session_state.step_pending
    /\ session_state.time > 0


\* neither stability precondition of the queue analyzer holds
QueueUnstable ==
    /\ ~(c = 1 /\ lambda_rate < mu_rate)
    /\ ~(c > 1 /\ lambda_rate < c * mu_rate)

\* what a run renders besides the simulated results: the theoretical part
TheoreticalPart == display \ {"Simulated Results"}

\* the sections that carry theoretical numbers
TheoreticalNumbers ==
    {"Theoretical M/M/1", "Theoretical M/M/c",
     "Theoretical vs. Simulated Comparison"}

\* C18 (as claimed): for every unstable parameter setting with
\* current_time > 0 the queue page renders, in place of the theoretical
\* output, a labelled undefined/unstable result: no theoretical numbers, no
\* comparison table, and something that reports the condition.
C18_UnstableIsReported ==
    (IsQueue /\ session_state.time > 0 /\ QueueUnstable)
        => /\ TheoreticalPart \cap TheoreticalNumbers = {}
           /\ TheoreticalPart # {}

\* C19: run termination.  With positive rates and holding times of at
\* least one quantum, a running engine that is neither stopped nor reset
\* reaches current_time = horizon, and at the horizon no script run calls
\* simulation_step.
C19_RunTerminates ==
    /\ session_state.running
          ~> (session_state.time = T_MAX \/ ~session_state.running)
    /\ [][session_state.time = T_MAX => ~script_run'.stepped]_vars

\* C19 witness: reruns alone have carried the repair engine through several
\* events to the horizon
C19_Witness ==
    /\ IsRepair /\ session_state.time = T_MAX /\ Stepped
    /\ script_run.button = "none" /\ Len(session_state.history) >= 2
    /\ T_MAX = MaxT


----------------------------------------------------------------------------
(* Traffic lights *)

IsTraffic == app = "traffic"

\* the signal get_light_state returns for `direction` in the current state
Light(direction) == get_light_state(session_state, direction)

\* C20: traffic lights mutual exclusion.  In every reachable state of the
\* traffic page phase is 0 or 1 and exactly one of the two vehicle signals is
\* green: get_light_state('ns') and get_light_state('ew') are never both
\* 'green' and never both 'red'.  Each pedestrian signal ('ns_ped',
\* 'ew_ped') is green exactly when the vehicle signal of the same axis is
\* red.  The signals the page has rendered obey the same rules.
C20_LightsMutuallyExclusive ==
    IsTraffic =>
        /\ session_state.phase \in {0, 1}
        /\ {Light("ns"), Light("ew")} = {"green", "red"}
        /\ Light("ns_ped") = "green" <=> Light("ns") = "red"
        /\ Light("ew_ped") = "green" <=> Light("ew") = "red"
        /\ {Light("ns_ped"), Light("ew_ped")} \subseteq {"green", "red"}
        /\ {display["ns"], display["ew"]} = {"green", "red"}
        /\ display["ns_ped"] = "green" <=> display["ns"] = "red"
        /\ display["ew_ped"] = "green" <=> display["ew"] = "red"

\* a tick has just changed the phase a second time: east-west was green and
\* north-south is green again
C20_Witness ==
    /\ IsTraffic
    /\ script_run.ticked /\ script_run.duration # <<>>
    /\ ~script_run.ns_can_move /\ script_run.ew_can_move
    /\ session_state.statistics.phase_changes = 2
    /\ Light("ns") = "green" /\ Light("ew") = "red"


\* the green-time sliders are set to a non-empty range
ValidGreens == green_min <= green_max

\* the script run that led to the next state was a tick
Ticked == script_run'.ticked

\* the incremented timer reaches duration in the tick out of this state
TimerDue == session_state.timer + 1 >= session_state.duration

PhaseToggles == session_state'.phase # session_state.phase

PhaseChanges(s) == s.statistics.phase_changes

\* C21: traffic phase timing, with green_min <= green_max held fixed.  After
\* every tick 0 <= timer < duration.  The phase toggles only on a tick at
\* which the incremented timer reaches duration; on exactly those ticks
\* timer is reset to 0, duration is redrawn within [green_min, green_max]
\* and phase_changes is incremented by one; every other tick only advances
\* the timer.  A run that is no tick leaves phase, timer, duration and
\* phase_changes alone unless it is a Reset, which sets phase, timer and
\* phase_changes to 0: phase_changes counts the toggles since the last
\* reset.
C21_PhaseTiming ==
    /\ [](IsTraffic /\ ValidGreens /\ script_run.ticked =>
            /\ 0 <= session_state.timer
            /\ session_state.timer < session_state.duration)
    /\ [][IsTraffic /\ ValidGreens =>
            /\ Ticked /\ TimerDue =>
                /\ PhaseToggles
                /\ session_state'.timer = 0
                /\ session_state'.duration \in green_min .. green_max
                /\ PhaseChanges(session_state') =
                       PhaseChanges(session_state) + 1
            /\ Ticked /\ ~TimerDue =>
                /\ ~PhaseToggles
                /\ session_state'.timer = session_state.timer + 1
                /\ session_state'.duration = session_state.duration
                /\ PhaseChanges(session_state') = PhaseChanges(session_state)
            /\ ~Ticked /\ script_run'.button # "reset" =>
                /\ ~PhaseToggles
                /\ session_state'.timer = session_state.timer
                /\ session_state'.duration = session_state.duration
                /\ PhaseChanges(session_state') = PhaseChanges(session_state)
            /\ script_run'.button = "reset" =>
                /\ session_state'.phase = 0
                /\ session_state'.timer = 0
                /\ PhaseChanges(session_state') = 0]_vars

\* the second tick after a reset that drew duration 2 has toggled the phase
C21_Witness ==
    /\ IsTraffic /\ ValidGreens
    /\ script_run.ticked /\ script_run.duration # <<>>
    /\ session_state.simulation_time = 2
    /\ session_state.phase = 1 /\ session_state.timer = 0
    /\ PhaseChanges(session_state) = 1


\* the cars on the road in state s
CarsOf(s) == {s.cars[i] : i \in 1 .. Len(s.cars)}

\* whether the light of the car's axis was green for the script run `run`
\* (ns_can_move / ew_can_move, computed before the tick)
AxisGreen(run, car) ==
    IF car.direction \in {"ns", "sn"} THEN run.ns_can_move
    ELSE run.ew_can_move

SamePlace(car, other) == other.x = car.x /\ other.y = car.y

\* C22: traffic red-light safety.  For every car and every script run: if
\* the car is inside its approach zone (is_in_intersection) and the signal
\* of its axis is red for that run, the car stays on the road where it was;
\* a car is found outside its approach zone after having been inside only
\* after a run in which its axis was green and the cars were updated.
C22_RedLightSafety ==
    [][IsTraffic =>
        \A car \in CarsOf(session_state) :
            is_in_intersection(car) =>
                /\ ~AxisGreen(script_run', car)
                   /\ script_run'.button # "reset" =>
                       \E after \in CarsOf(session_state') :
                           after.id = car.id /\ SamePlace(car, after)
                /\ \A after \in CarsOf(session_state') :
                       after.id = car.id /\ ~SamePlace(car, after) =>
                           /\ AxisGreen(script_run', car)
                           /\ ~script_run'.ticked
                           /\ ~script_run'.raised]_vars

\* a car that had started to cross its approach zone under green has just
\* been held in it by a script run under red
C22_Witness ==
    /\ IsTraffic
    /\ script_run.button = "none" /\ ~script_run.ticked
    /\ \E car \in CarsOf(session_state) :
          /\ is_in_intersection(car)
          /\ car.service_start_time # <<>>
          /\ ~AxisGreen(script_run, car)


\* C23: traffic car conservation.  At the end of every script run
\* next_car_id = (number of cars on the road) + total_cars_served, all cars
\* on the road have distinct ids, total_cars_served = len(wait_times) =
\* len(departed_cars), and every recorded wait_time is >= 0; after any
\* sequence of ticks, spawns, departures and resets.
C23_CarConservation ==
    IsTraffic =>
        LET cars == session_state.cars
            statistics == session_state.statistics
        IN  /\ session_state.next_car_id =
                   Len(cars) + statistics.total_cars_served
            /\ \A i, j \in 1 .. Len(cars) : cars[i].id = cars[j].id => i = j
            /\ statistics.total_cars_served = Len(statistics.wait_times)
            /\ statistics.total_cars_served = Len(session_state.departed_cars)
            /\ \A i \in 1 .. Len(statistics.wait_times) :
                   statistics.wait_times[i] >= 0

\* two cars were spawned; one has gone off screen and is in the statistics,
\* the other is still on the road
C23_Witness ==
    /\ IsTraffic
    /\ session_state.next_car_id = 2
    /\ Len(session_state.cars) = 1
    /\ session_state.statistics.total_cars_served = 1
    /\ Len(session_state.departed_cars) = 1


\* the number of cars created with direction d since the last reset: those
\* on the road and those that have departed
CarsCreated(s, d) ==
    Cardinality({i \in 1 .. Len(s.cars) : s.cars[i].direction = d})
    + Cardinality({i \in 1 .. Len(s.departed_cars) :
                     s.departed_cars[i].direction = d})

\* C24: traffic per-direction arrival statistics.  For each direction d in
\* {ns, sn, ew, we}, cars_per_direction[d] equals the number of cars created
\* with direction d since the last reset: the counter incremented at a spawn
\* is the one for the direction of the car that was spawned.
C24_CountsPerDirection ==
    IsTraffic =>
        \A d \in directions :
            session_state.statistics.cars_per_direction[d] =
                CarsCreated(session_state, d)


\* C25: the traffic simulation is frozen while stopped.  A script run with
\* running = False and no button pressed leaves the phase, timer,
\* simulation_time, every car's position, the list of cars on the road and
\* all statistics (total_cars_served, wait_times, departed_cars) unchanged.
C25_FrozenWhileStopped ==
    [][IsTraffic /\ ~session_state.running /\ script_run'.button = "none" =>
        /\ session_state'.phase = session_state.phase
        /\ session_state'.timer = session_state.timer
        /\ session_state'.simulation_time = session_state.simulation_time
        /\ session_state'.cars = session_state.cars
        /\ session_state'.statistics = session_state.statistics
        /\ session_state'.departed_cars = session_state.departed_cars]_vars


\* the largest number of ticks a phase can last: the initial duration or the
\* largest value a redraw can return
LongestPhase == Max(TrafficInitState.duration, green_max)

\* the page is running in phase p and the tick at which the timer reaches
\* duration lies within the time the model covers
PhaseRunning(p) ==
    /\ IsTraffic /\ session_state.running /\ session_state.phase = p
    /\ session_state.simulation_time
           + (session_state.duration - session_state.timer) <= MaxLightTime

PhaseLeft(p) == session_state.phase # p \/ ~session_state.running

\* C26: traffic phase liveness.  While the simulation stays running and
\* ticks keep occurring, the phase toggles within at most
\* max(initial duration, green_max) ticks of the previous toggle: timer
\* counts the ticks since the last toggle (every tick either toggles the
\* phase and zeroes timer or adds one to timer) and stays below duration,
\* which is at most max(initial duration, green_max).  So from each phase
\* the other one is reached (north-south green leads to east-west green and
\* back) unless the page is stopped or reset: neither axis stays red.
C26_PhaseLiveness ==
    /\ [](IsTraffic =>
            /\ session_state.timer < session_state.duration
            /\ session_state.duration <= LongestPhase)
    /\ [][IsTraffic /\ Ticked =>
            \/ PhaseToggles /\ session_state'.timer = 0
            \/ ~PhaseToggles
               /\ session_state'.timer = session_state.timer + 1]_vars
    /\ PhaseRunning(0) ~> PhaseLeft(0)
    /\ PhaseRunning(1) ~> PhaseLeft(1)

\* with no reset, the initial phase has lasted its five ticks, east-west
\* has been green, and a tick has just made north-south green again
C26_Witness ==
    /\ IsTraffic /\ session_state.running
    /\ script_run.ticked /\ script_run.duration # <<>>
    /\ PhaseChanges(session_state) = 2
    /\ session_state.phase = 0
    /\ session_state.simulation_time > TrafficInitState.duration


\* the car is blocked by another car on the road (car_blocking of update)
BlockedBy(car, other) == other.id # car.id /\ is_blocking(car, other)

\* the car is in its approach zone and the light of its axis is red
HeldAtRed(car) ==
    /\ is_in_intersection(car)
    /\ Light(IF car.direction \in {"ns", "sn"} THEN "ns" ELSE "ew") = "red"

\* the car waits for the light: it is held at red itself, or it is blocked
\* by a car that waits for the light (through at most n cars)
RECURSIVE WaitsForLight(_, _)
WaitsForLight(car, n) ==
    \/ HeldAtRed(car)
    \/ /\ n > 0
       /\ \E other \in CarsOf(session_state) :
              BlockedBy(car, other) /\ WaitsForLight(other, n - 1)

OnRoad(id) == \E car \in CarsOf(session_state) : car.id = id

Served(id) ==
    /\ ~OnRoad(id)
    /\ \E i \in 1 .. Len(session_state.departed_cars) :
           session_state.departed_cars[i].id = id
    /\ session_state.statistics.total_cars_served
           = Len(session_state.departed_cars)

\* no tick can follow, so the lights keep their phase, and the car with
\* this id waits for the light
RedForGood(id) ==
    /\ session_state.simulation_time >= MaxPairTime
    /\ \E car \in CarsOf(session_state) :
           car.id = id /\ WaitsForLight(car, MaxPairCars)

\* The cars leave the road: while the page keeps running, with fair ticks
\* and reruns, every car on the road is served, unless it waits for a light
\* that the time bound of the model keeps red.
CarsLeaveTheRoad ==
    \A id \in 0 .. MaxPairCars - 1 :
        (IsTraffic /\ session_state.running /\ OnRoad(id))
            ~> (Served(id) \/ ~session_state.running \/ RedForGood(id))

\* the car one step of update further on
StepAhead(car) ==
    CASE car.direction = "ns" -> [car EXCEPT !.y = @ + speed]
      [] car.direction = "sn" -> [car EXCEPT !.y = @ - speed]
      [] car.direction = "ew" -> [car EXCEPT !.x = @ - speed]
      [] car.direction = "we" -> [car EXCEPT !.x = @ + speed]

\* the script run that led to the next state reached the car update loop
CarsUpdated ==
    ~script_run'.ticked /\ ~script_run'.raised
    /\ script_run'.button # "reset"

\* what the car update and removal of the run did to the car
Advanced(car) ==
    \E after \in CarsOf(session_state') :
        after.id = car.id /\ SamePlace(StepAhead(car), after)

Departed(car) ==
    /\ is_off_screen(StepAhead(car))
    /\ \A after \in CarsOf(session_state') : after.id # car.id
    /\ \E i \in 1 .. Len(session_state'.departed_cars) :
           session_state'.departed_cars[i].id = car.id
    /\ session_state'.statistics.total_cars_served
           = Len(session_state'.departed_cars)

\* the car stayed where it was, held by the red light of the run or
\* blocked by another car, which the loop had or had not yet moved
Waited(car) ==
    /\ \E after \in CarsOf(session_state') :
           after.id = car.id /\ SamePlace(car, after)
    /\ \/ is_in_intersection(car) /\ ~AxisGreen(script_run', car)
       \/ \E other \in CarsOf(session_state) :
              \/ BlockedBy(car, other)
              \/ BlockedBy(car, StepAhead(other))

====
